---- MODULE Spec2Model ----
(***************************************************************************)
(* Work-schedule generator (src/app.js): four workers, three daily shifts  *)
(* {7, 9, 13}, one worker off per day by a weekly role rotation, shifts    *)
(* balanced by a greedy search over the orderings of the working workers.  *)
(*                                                                         *)
(* JavaScript arrays are 0-based: shiftCounts, OFF_PATTERNS and SHIFTS are *)
(* read through 0-based accessors; lists that are only iterated (days,     *)
(* weeks, perms, a perm) are TLA+ sequences, so perm[s] of the source is   *)
(* perm[s + 1] here.                                                       *)
(***************************************************************************)
EXTENDS Integers, Sequences, FiniteSets, TLC

VARIABLES
    year, month,    \* arguments of the current generateSchedule call
    daysInMonth,    \* local of generateSchedule
    weeks,          \* local: the month's days grouped into weeks
    shiftCounts,    \* local: [worker][shiftIndex] running tally
    schedule,       \* local, returned: day number -> [off, shifts]
    wi, di,         \* loop position: week index (0-based), day within week (1-based)
    pc,             \* "idle" | "loop" | "done"
    calls,          \* number of generateSchedule calls started
    before,         \* history: shiftCounts as read by the last day's scoring
    bestPerm,       \* local of the last committed day (<<>> before the first)
    lastDay,        \* history: [date, dayOfWeek, wi] of the last committed day
    writes,         \* history: assignments schedule[day.date] = ... made by this call
    stateYear, stateMonth,  \* state.year, state.month (month 1-indexed)
    stateSchedule,  \* state.schedule: <<>> for null, <<s>> for the Schedule s
    generatedFor,   \* history: <<year, month>> state.schedule was generated for
    lastExport      \* history: what exportToExcel did, if it was the last handler run

vars == <<year, month, daysInMonth, weeks, shiftCounts, schedule, wi, di, pc,
          calls, before, bestPerm, lastDay, writes,
          stateYear, stateMonth, stateSchedule, generatedFor, lastExport>>

---------------------------------------------------------------------------
(* Bounds of the model and program constants *)

BaseYear == 2026
BaseMonth == 2
YearsBack == 2
YearsAhead == 22
MaxCalls == 2
MaxMonthsAway == 11

Years == (BaseYear - YearsBack)..(BaseYear + YearsAhead)
Months == 1..12

Workers == 0..3
Slots == 0..2

SHIFTS == <<7, 9, 13>>
ShiftId(s) == SHIFTS[s + 1]

OFF_PATTERNS == << {0, 1}, {2, 3}, {4, 5}, {6} >>

OffPatternNoSaturday(role) == IF role = 3 THEN {} ELSE OFF_PATTERNS[role + 1]

OffPattern(role) == OFF_PATTERNS[role + 1]

---------------------------------------------------------------------------
(* The host's Date arithmetic: new Date(year, month, 0).getDate() and       *)
(* new Date(year, month - 1, d).getDay() (proleptic Gregorian, 0 = Sunday). *)

IsLeapYear(y) == (y % 4 = 0 /\ y % 100 # 0) \/ y % 400 = 0

DaysInMonth(y, m) ==
    IF m = 2 THEN (IF IsLeapYear(y) THEN 29 ELSE 28)
    ELSE IF m \in {4, 6, 9, 11} THEN 30 ELSE 31

\* Days of a common year before the first of each month
CumulativeDays == <<0, 31, 59, 90, 120, 151, 181, 212, 243, 273, 304, 334>>

DaysBeforeMonth(y, m) ==
    CumulativeDays[m] + (IF m > 2 /\ IsLeapYear(y) THEN 1 ELSE 0)

\* Leap days in the years 1..y
LeapsThrough(y) == (y \div 4) - (y \div 100) + (y \div 400)

\* Days from 1970-01-01 (a Thursday) to y-m-d
DaysSinceEpoch(y, m, d) ==
    365 * (y - 1970) + (LeapsThrough(y - 1) - LeapsThrough(1969))
        + DaysBeforeMonth(y, m) + (d - 1)

GetDay(y, m, d) == (4 + DaysSinceEpoch(y, m, d)) % 7

---------------------------------------------------------------------------
(* generateSchedule: day list and week grouping *)

BuildDays(y, m) ==
    [d \in 1..DaysInMonth(y, m) |-> [date |-> d, dayOfWeek |-> GetDay(y, m, d)]]

StartsNewWeekOnMonday(day, currentWeek) ==
    day.dayOfWeek = 1 /\ Len(currentWeek) > 0

StartsNewWeek(day, currentWeek) ==
    day.dayOfWeek = 0 /\ Len(currentWeek) > 0

FlushDropsLastWeek(weekList, currentWeek) ==
    weekList

FlushLastWeek(weekList, currentWeek) ==
    IF Len(currentWeek) > 0 THEN Append(weekList, currentWeek) ELSE weekList

RECURSIVE GroupFrom(_, _, _, _)
GroupFrom(days, i, weekList, currentWeek) ==
    IF i > Len(days) THEN FlushLastWeek(weekList, currentWeek)
    ELSE IF StartsNewWeek(days[i], currentWeek)
         THEN GroupFrom(days, i + 1, Append(weekList, currentWeek), <<days[i]>>)
         ELSE GroupFrom(days, i + 1, weekList, Append(currentWeek, days[i]))

GroupWeeks(days) == GroupFrom(days, 1, <<>>, <<>>)

ZeroCounts == [w \in Workers |-> [s \in Slots |-> 0]]

CarriedShiftCounts == shiftCounts

NewShiftCounts == [w \in Workers |-> [s \in Slots |-> 0]]

---------------------------------------------------------------------------
(* generateSchedule: the off worker of a day *)

RoleSkipsAWeek(w, weekIndex) == (w + 2 * weekIndex) % 4

RoleBackwards(w, weekIndex) == (w + 3 * weekIndex) % 4

Role(w, weekIndex) == (w + weekIndex) % 4

RECURSIVE ScanOff(_, _, _)
ScanOff(w, weekIndex, dayOfWeek) ==
    IF w >= 4 THEN -1
    ELSE IF dayOfWeek \in OffPattern(Role(w, weekIndex)) THEN w
         ELSE ScanOff(w + 1, weekIndex, dayOfWeek)

OffWorker(weekIndex, dayOfWeek) == ScanOff(0, weekIndex, dayOfWeek)

WorkingWorkersUnfiltered(offWorker) == <<0, 1, 2, 3>>

WorkingWorkers(offWorker) == SelectSeq(<<0, 1, 2, 3>>, LAMBDA w : w # offWorker)

---------------------------------------------------------------------------
(* permutations(arr) *)

RemoveAt(arr, i) == SubSeq(arr, 1, i - 1) \o SubSeq(arr, i + 1, Len(arr))

Prefixed(x, ps) == [k \in 1..Len(ps) |-> <<x>> \o ps[k]]

RECURSIVE permutations(_), PermsFrom(_, _)
PermsFrom(arr, i) ==
    IF i > Len(arr) THEN <<>>
    ELSE Prefixed(arr[i], permutations(RemoveAt(arr, i))) \o PermsFrom(arr, i + 1)

permutations(arr) == IF Len(arr) <= 1 THEN <<arr>> ELSE PermsFrom(arr, 1)

---------------------------------------------------------------------------
(* generateSchedule: scoring and selection.  The source adds                *)
(* (maxCount - minCount) * 0.1 to an integer sum; scores are kept here in    *)
(* tenths (Score10 = 10 * score), which orders them exactly.                 *)

MaxCount(row) == CHOOSE x \in {row[s] : s \in Slots} : \A s \in Slots : x >= row[s]
MinCount(row) == CHOOSE x \in {row[s] : s \in Slots} : \A s \in Slots : x <= row[s]

BaseScore(sc, perm) ==
    sc[perm[1]][0] + sc[perm[2]][1] + sc[perm[3]][2]

Penalty10(sc, perm) ==
    (MaxCount(sc[perm[1]]) - MinCount(sc[perm[1]]))
  + (MaxCount(sc[perm[2]]) - MinCount(sc[perm[2]]))
  + (MaxCount(sc[perm[3]]) - MinCount(sc[perm[3]]))

Score10(sc, perm) == 10 * BaseScore(sc, perm) + Penalty10(sc, perm)

\* bestScore is <<>> for Infinity and <<n>> for the finite score n
BetterOrEqual(score, bestScore) == bestScore = <<>> \/ score <= bestScore[1]

Better(score, bestScore) == bestScore = <<>> \/ score < bestScore[1]

RECURSIVE SelectFrom(_, _, _, _, _)
SelectFrom(sc, perms, i, best, bestScore) ==
    IF i > Len(perms) THEN best
    ELSE LET score == Score10(sc, perms[i])
         IN  IF Better(score, bestScore)
             THEN SelectFrom(sc, perms, i + 1, perms[i], <<score>>)
             ELSE SelectFrom(sc, perms, i + 1, best, bestScore)

SelectFirst(sc, perms) == perms[1]

SelectBest(sc, perms) == SelectFrom(sc, perms, 1, perms[1], <<>>)

---------------------------------------------------------------------------
(* generateSchedule: committing a day *)

IncCellSameSlot(sc, w, s) == [sc EXCEPT ![w][0] = @ + 1]

IncCell(sc, w, s) == [sc EXCEPT ![w][s] = @ + 1]

CommitCounts(sc, perm) ==
    IncCell(IncCell(IncCell(sc, perm[1], 0), perm[2], 1), perm[3], 2)

\* shifts[bestPerm[s]] = SHIFTS[s].id for s = 0, 1, 2: a later slot overwrites
ShiftsOf(perm) ==
    [w \in {perm[k] : k \in 1..3} |->
        ShiftId(CHOOSE s \in Slots :
                    /\ perm[s + 1] = w
                    /\ \A t \in Slots : perm[t + 1] = w => t <= s)]

\* One iteration of the inner loop body: [off, perm, counts, entry]
DayResult(sc, weekIndex, day) ==
    LET offWorker == OffWorker(weekIndex, day.dayOfWeek)
        workingWorkers == WorkingWorkers(offWorker)
        best == SelectBest(sc, permutations(workingWorkers))
    IN  [perm   |-> best,
         counts |-> CommitCounts(sc, best),
         entry  |-> [off |-> offWorker, shifts |-> ShiftsOf(best)]]

\* schedule[day.date] = { off, shifts }
Extend(sched, date, entry) ==
    [d \in DOMAIN sched \cup {date} |-> IF d = date THEN entry ELSE sched[d]]

\* generateSchedule as a function: the loops over weeks and days run from week
\* index k, day j, counts sc and partial schedule sched to the returned Schedule
RECURSIVE RunFrom(_, _, _, _, _)
RunFrom(ws, k, j, sc, sched) ==
    IF k >= Len(ws) THEN sched
    ELSE LET day == ws[k + 1][j]
             r == DayResult(sc, k, day)
             next == Extend(sched, day.date, r.entry)
         IN  IF j < Len(ws[k + 1])
             THEN RunFrom(ws, k, j + 1, r.counts, next)
             ELSE RunFrom(ws, k + 1, 1, r.counts, next)

\* One call on its own: counts start at all zeros
IsolatedSchedule(y, m) ==
    RunFrom(GroupWeeks(BuildDays(y, m)), 0, 1, ZeroCounts, <<>>)

---------------------------------------------------------------------------
(* The state machine *)

NoDay == [date |-> 0, dayOfWeek |-> 0, wi |-> 0]

NoExport == [outcome |-> "none"]

Init ==
    /\ year = 0 /\ month = 0 /\ daysInMonth = 0
    /\ weeks = <<>>
    /\ shiftCounts = ZeroCounts
    /\ schedule = <<>>
    /\ wi = 0 /\ di = 1
    /\ pc = "idle"
    /\ calls = 0
    /\ before = ZeroCounts
    /\ bestPerm = <<>>
    /\ lastDay = NoDay
    /\ writes = 0
    /\ stateYear = BaseYear /\ stateMonth = BaseMonth
    /\ stateSchedule = <<>>
    /\ generatedFor = <<>>
    /\ lastExport = NoExport

\* generateSchedule(y, m) up to the first loop test (lines 98-128)
Call(y, m) ==
    /\ pc \in {"idle", "done"}
    /\ calls < MaxCalls
    /\ calls' = calls + 1
    /\ year' = y /\ month' = m
    /\ daysInMonth' = DaysInMonth(y, m)
    /\ weeks' = GroupWeeks(BuildDays(y, m))
    /\ shiftCounts' = NewShiftCounts
    /\ schedule' = <<>>
    /\ wi' = 0 /\ di' = 1
    /\ pc' = "loop"
    /\ before' = ZeroCounts
    /\ bestPerm' = <<>>
    /\ lastDay' = NoDay
    /\ writes' = 0
    /\ lastExport' = NoExport
    /\ UNCHANGED <<stateYear, stateMonth, stateSchedule, generatedFor>>

\* The loop tests: wi < weeks.length, and the day the iteration reads
LoopContinues == pc = "loop" /\ wi < Len(weeks)
LoopEnds == pc = "loop" /\ wi >= Len(weeks)
DayToProcess == wi + 1 \in DOMAIN weeks /\ di \in DOMAIN weeks[wi + 1]

\* One iteration of the loop over the days of week wi (lines 131-183)
CommitDay ==
    /\ LoopContinues
    /\ LET week == weeks[wi + 1]
           day == week[di]
           r == DayResult(shiftCounts, wi, day)
       IN  /\ before' = shiftCounts
           /\ bestPerm' = r.perm
           /\ shiftCounts' = r.counts
           /\ schedule' = Extend(schedule, day.date, r.entry)
           /\ writes' = writes + 1
           /\ lastDay' = [date |-> day.date, dayOfWeek |-> day.dayOfWeek, wi |-> wi]
           /\ IF di < Len(week)
              THEN wi' = wi /\ di' = di + 1
              ELSE wi' = wi + 1 /\ di' = 1
    /\ UNCHANGED <<year, month, daysInMonth, weeks, pc, calls,
                   stateYear, stateMonth, stateSchedule, generatedFor, lastExport>>

\* return schedule (line 186)
Return ==
    /\ LoopEnds
    /\ pc' = "done"
    /\ UNCHANGED <<year, month, daysInMonth, weeks, shiftCounts, schedule, wi, di,
                   calls, before, bestPerm, lastDay, writes,
                   stateYear, stateMonth, stateSchedule, generatedFor, lastExport>>

Next ==
    \/ \E y \in Years, m \in Months : Call(y, m)
    \/ CommitDay
    \/ Return

Spec == Init /\ [][Next]_vars

---------------------------------------------------------------------------
(* The page: the click handlers changeMonth, generate and exportToExcel over *)
(* the global state.  A handler runs to completion before the next click is  *)
(* served, so no handler starts while generateSchedule is in its loop.       *)
(* Worker names stand for themselves: a name is the worker's index.          *)

genVars == <<year, month, daysInMonth, weeks, shiftCounts, schedule, wi, di, pc,
             calls, before, bestPerm, lastDay, writes>>

\* Months between the displayed month and the month the page starts on
MonthsAway(y, m) ==
    LET n == (12 * y + m) - (12 * BaseYear + BaseMonth)
    IN  IF n < 0 THEN 0 - n ELSE n

\* state.month += delta, with the year wrap (lines 57-64)
MonthAfterChange(m, delta) ==
    IF m + delta < 1 THEN 12 ELSE IF m + delta > 12 THEN 1 ELSE m + delta

YearAfterChange(y, m, delta) ==
    IF m + delta < 1 THEN y - 1 ELSE IF m + delta > 12 THEN y + 1 ELSE y

changeMonth(delta) ==
    /\ pc # "loop"
    /\ MonthsAway(YearAfterChange(stateYear, stateMonth, delta),
                  MonthAfterChange(stateMonth, delta)) <= MaxMonthsAway
    /\ stateMonth' = MonthAfterChange(stateMonth, delta)
    /\ stateYear' = YearAfterChange(stateYear, stateMonth, delta)
    /\ lastExport' = NoExport
    /\ UNCHANGED <<stateSchedule, generatedFor>>
    /\ UNCHANGED genVars

\* generate(), up to the loop of generateSchedule(state.year, state.month)
generate == Call(stateYear, stateMonth)

\* generate(), from the return of generateSchedule on: state.schedule = schedule
generateAssigns ==
    /\ LoopEnds
    /\ pc' = "done"
    /\ stateSchedule' = <<schedule>>
    /\ generatedFor' = <<year, month>>
    /\ lastExport' = NoExport
    /\ UNCHANGED <<stateYear, stateMonth>>
    /\ UNCHANGED <<year, month, daysInMonth, weeks, shiftCounts, schedule, wi, di,
                   calls, before, bestPerm, lastDay, writes>>

\* The worker of entry ds holding shift id, as the row cell: <<>> for ''
NameWithShift(ds, id) ==
    LET holders == {w \in Workers : w # ds.off /\ w \in DOMAIN ds.shifts /\ ds.shifts[w] = id}
    IN  IF holders = {} THEN <<>> ELSE <<CHOOSE w \in holders : \A v \in holders : v <= w>>

NameOff(ds) == IF ds.off \in Workers THEN <<ds.off>> ELSE <<>>

\* One row per day (lines 501-525)
DayRow(y, m, sched, d) ==
    [date |-> d, dayOfWeek |-> GetDay(y, m, d),
     w7 |-> NameWithShift(sched[d], 7), w9 |-> NameWithShift(sched[d], 9),
     w13 |-> NameWithShift(sched[d], 13), wOff |-> NameOff(sched[d])]

\* exportToExcel() (lines 462-613): the alert on a null schedule; a TypeError
\* at the first day d with schedule[d] undefined (ds.off); otherwise the file
ExportOutcome(y, m, sched) ==
    IF sched = <<>> THEN [outcome |-> "alert"]
    ELSE LET n == DaysInMonth(y, m)
             missing == {d \in 1..n : d \notin DOMAIN sched[1]}
         IN  IF missing # {}
             THEN [outcome |-> "TypeError",
                   day |-> CHOOSE d \in missing : \A e \in missing : d <= e]
             ELSE [outcome |-> "file", year |-> y, month |-> m,
                   rows |-> [d \in 1..n |-> DayRow(y, m, sched[1], d)]]

exportToExcel ==
    /\ pc # "loop"
    /\ lastExport' = ExportOutcome(stateYear, stateMonth, stateSchedule)
    /\ UNCHANGED <<stateYear, stateMonth, stateSchedule, generatedFor>>
    /\ UNCHANGED genVars

NextUI ==
    \/ changeMonth(1)
    \/ changeMonth(-1)
    \/ generate
    \/ CommitDay
    \/ generateAssigns
    \/ exportToExcel

SpecUI == Init /\ [][NextUI]_vars

---------------------------------------------------------------------------
(* Vocabulary of the properties, stated from the calendar and the returned  *)
(* Schedule rather than from the generator's locals                         *)

Started == pc \in {"loop", "done"}

\* Day-of-week of day d of the month being generated
Dow(d) == GetDay(year, month, d)

\* 0-based week index of day d: the Sundays after day 1 up to d each open a week
WeekIndexOf(d) == Cardinality({e \in 2..d : Dow(e) = 0})

\* The role patterns as the documentation states them
PatternOfRole(role) ==
    CASE role = 0 -> {0, 1} [] role = 1 -> {2, 3} [] role = 2 -> {4, 5} [] role = 3 -> {6}

OffDays(w) == Cardinality({d \in DOMAIN schedule : schedule[d].off = w})
WorkDays(w) == Cardinality({d \in DOMAIN schedule : w \in DOMAIN schedule[d].shifts})

RECURSIVE Flatten(_)
Flatten(ws) == IF ws = <<>> THEN <<>> ELSE Head(ws) \o Flatten(Tail(ws))

---------------------------------------------------------------------------
\* C1: on every day of the Schedule exactly one worker index in 0..3 is off
\* (never -1), the shifts mapping has exactly the other three workers as keys,
\* and they hold pairwise distinct shift ids that together are {7, 9, 13}.
C1_OneOffThreeDistinctShifts ==
    pc = "done" =>
        \A d \in DOMAIN schedule :
            LET e == schedule[d]
            IN  /\ e.off \in 0..3
                /\ DOMAIN e.shifts = (0..3) \ {e.off}
                /\ \A v, w \in DOMAIN e.shifts : v # w => e.shifts[v] # e.shifts[w]
                /\ {e.shifts[w] : w \in DOMAIN e.shifts} = {7, 9, 13}

\* A returned 31-day Schedule of a month that begins on a Saturday (six weeks)
C1_Witness ==
    /\ pc = "done" /\ Dow(1) = 6
    /\ DOMAIN schedule = 1..31
    /\ schedule[31].off \in 0..3
    /\ Cardinality(DOMAIN schedule[31].shifts) = 3

\* C2: for every scheduled day d in week index wi and every worker w, w is the
\* off worker of d iff d's day-of-week is in the pattern of role (w + wi) mod 4;
\* exactly one worker matches; a short first week is week index 0 and the
\* generator's own week index agrees with the calendar's.
C2_OffIffRolePattern ==
    /\ pc = "done" =>
          \A d \in DOMAIN schedule :
              /\ \A w \in 0..3 :
                    (schedule[d].off = w)
                        <=> (Dow(d) \in PatternOfRole((w + WeekIndexOf(d)) % 4))
              /\ Cardinality({w \in 0..3 :
                    Dow(d) \in PatternOfRole((w + WeekIndexOf(d)) % 4)}) = 1
    /\ lastDay.date \in DOMAIN schedule => lastDay.wi = WeekIndexOf(lastDay.date)
    /\ 1 \in DOMAIN schedule => WeekIndexOf(1) = 0

\* A month that begins on a Wednesday: the short first week is week 0 (worker 1
\* off on day 1, role 1), and the Sunday of week index 2 has worker 2 off (role 0)
C2_Witness ==
    /\ pc = "done" /\ Dow(1) = 3
    /\ schedule[1].off = 1
    /\ Dow(12) = 0 /\ WeekIndexOf(12) = 2 /\ schedule[12].off = 2

\* C3: the worker holding Role 3 in week wi holds Role 0 in week wi+1 (when that
\* week exists), and a Saturday whose following Sunday and Monday are days of
\* the month has the same off worker on all three days.
C3_SatSunMonRest ==
    pc = "done" =>
        /\ \A k \in 0..(Len(weeks) - 2) : \A w \in 0..3 :
              Role(w, k) = 3 => Role(w, k + 1) = 0
        /\ \A d \in DOMAIN schedule :
              (Dow(d) = 6 /\ (d + 1) \in DOMAIN schedule /\ (d + 2) \in DOMAIN schedule)
                  => /\ schedule[d + 1].off = schedule[d].off
                     /\ schedule[d + 2].off = schedule[d].off
                     /\ WeekIndexOf(d + 1) = WeekIndexOf(d) + 1

\* A Saturday, Sunday and Monday across a week boundary with one worker off
C3_Witness ==
    /\ pc = "done"
    /\ \E d \in DOMAIN schedule :
          /\ Dow(d) = 6 /\ (d + 2) \in DOMAIN schedule
          /\ schedule[d].off = schedule[d + 1].off
          /\ schedule[d].off = schedule[d + 2].off
          /\ WeekIndexOf(d) = 2 /\ WeekIndexOf(d + 2) = 3

\* C4: four complete Sunday-to-Saturday weeks (a 28-day month that begins on a
\* Sunday, week indices 0..3): every worker is off on exactly 7 days and is
\* assigned a shift on exactly 21 days.
C4_FourWeekCycle ==
    (pc = "done" /\ Cardinality(DOMAIN schedule) = 28 /\ Dow(1) = 0)
        => /\ Len(weeks) = 4
           /\ \A w \in 0..3 : OffDays(w) = 7 /\ WorkDays(w) = 21

\* The returned Schedule of a 28-day month that begins on a Sunday
C4_Witness ==
    /\ pc = "done" /\ DaysInMonth(year, month) = 28 /\ Dow(1) = 0
    /\ OffDays(3) = 7 /\ WorkDays(3) = 21

\* C5: the weeks concatenated are the days 1..daysInMonth in ascending order;
\* every week has 1..7 days; every week but the first begins on a Sunday; no
\* week has a Sunday after its first position; only the first and the last week
\* may have fewer than 7 days.
C5_WeekPartition ==
    Started =>
        /\ Flatten(weeks) =
              [d \in 1..DaysInMonth(year, month) |-> [date |-> d, dayOfWeek |-> Dow(d)]]
        /\ \A k \in 1..Len(weeks) : Len(weeks[k]) \in 1..7
        /\ \A k \in 2..Len(weeks) : weeks[k][1].dayOfWeek = 0
        /\ \A k \in 1..Len(weeks) : \A j \in 2..Len(weeks[k]) :
              weeks[k][j].dayOfWeek # 0
        /\ \A k \in 2..(Len(weeks) - 1) : Len(weeks[k]) = 7

\* A 31-day month beginning on a Friday: six weeks, first of 2 days, last of 1
C5_Witness ==
    /\ Started /\ Len(weeks) = 6
    /\ Len(weeks[1]) = 2 /\ Len(weeks[6]) = 1
    /\ weeks[1][1].dayOfWeek = 5

\* C6: every call for (year, month), whatever was generated before it, returns
\* the Schedule of a single isolated call for (year, month), and scores its
\* first day from all-zero counts.
C6_SameAsIsolatedCall ==
    /\ pc = "done" => schedule = IsolatedSchedule(year, month)
    /\ (pc = "loop" /\ schedule = <<>>) => shiftCounts = ZeroCounts

\* A second call has returned, counts of the first call having been non-zero
C6_Witness ==
    /\ pc = "done" /\ calls = 2
    /\ DOMAIN schedule = 1..DaysInMonth(year, month)
    /\ schedule = IsolatedSchedule(year, month)

\* C7: a started generateSchedule call always has a next step: its loop either
\* returns or continues with a day to process.  It has written at most
\* daysInMonth entries, every write having gone to a key of 1..daysInMonth not
\* written before (as many keys as writes), and it returns exactly when
\* daysInMonth writes are made; so the loop ends after daysInMonth iterations
\* and the returned Schedule has exactly the keys 1..daysInMonth.
C7_TerminatesComplete ==
    /\ pc = "loop" =>
          /\ LoopEnds \/ (LoopContinues /\ DayToProcess)
          /\ DOMAIN schedule \subseteq 1..DaysInMonth(year, month)
          /\ writes = Cardinality(DOMAIN schedule)
          /\ LoopEnds <=> (writes = DaysInMonth(year, month))
    /\ pc = "done" =>
          /\ DOMAIN schedule = 1..DaysInMonth(year, month)
          /\ writes = DaysInMonth(year, month)

\* A returned Schedule of a leap-year February: keys 1..29, built in 29 writes
C7_Witness ==
    /\ pc = "done" /\ month = 2 /\ IsLeapYear(year)
    /\ DOMAIN schedule = 1..29
    /\ writes = 29

\* The three working workers of the last committed day, ascending
Candidates ==
    LET S == (0..3) \ {schedule[lastDay.date].off}
    IN  CHOOSE c \in [1..3 -> S] : c[1] < c[2] /\ c[2] < c[3]

\* The order in which the six orderings of <<a, b, c>> are to be enumerated
EnumerationOrder(c) ==
    << <<c[1], c[2], c[3]>>, <<c[1], c[3], c[2]>>, <<c[2], c[1], c[3]>>,
       <<c[2], c[3], c[1]>>, <<c[3], c[1], c[2]>>, <<c[3], c[2], c[1]>> >>

\* Score of an ordering in tenths, from the counts (row w, slot s) directly:
\* ten times the counts of the assigned cells plus each assigned worker's spread
ScoreInTenths(counts, p) ==
    LET Spread(w) ==
            (CHOOSE x \in {counts[w][s] : s \in 0..2} : \A s \in 0..2 : x >= counts[w][s])
          - (CHOOSE x \in {counts[w][s] : s \in 0..2} : \A s \in 0..2 : x <= counts[w][s])
    IN  10 * (counts[p[1]][0] + counts[p[2]][1] + counts[p[3]][2])
          + Spread(p[1]) + Spread(p[2]) + Spread(p[3])

\* C8: the committed ordering is one of the six orderings of the day's three
\* working workers, its score on the pre-assignment counts is <= that of each
\* of the six, every ordering enumerated before it scores strictly more, and
\* permutations of the ascending candidate list enumerates abc, acb, bac, bca,
\* cab, cba in that order.
C8_FirstMinimalOrdering ==
    (Started /\ writes > 0) =>
        LET orderings == EnumerationOrder(Candidates)
        IN  /\ permutations(Candidates) = orderings
            /\ \E i \in 1..6 :
                  /\ bestPerm = orderings[i]
                  /\ \A j \in 1..6 :
                        ScoreInTenths(before, bestPerm) <= ScoreInTenths(before, orderings[j])
                  /\ \A j \in 1..(i - 1) :
                        ScoreInTenths(before, orderings[j]) > ScoreInTenths(before, bestPerm)

\* A day on which the minimum score is attained by two orderings and the one
\* committed is the earlier of them, not the first of the enumeration
C8_Witness ==
    /\ Started /\ writes > 0
    /\ LET orderings == EnumerationOrder(Candidates)
       IN  \E i, j \in 2..6 :
              /\ i < j
              /\ bestPerm = orderings[i]
              /\ ScoreInTenths(before, orderings[j]) = ScoreInTenths(before, orderings[i])

\* The count sum and the tiebreak of an ordering, separately (tiebreak in tenths)
BaseOf(counts, p) == counts[p[1]][0] + counts[p[2]][1] + counts[p[3]][2]
PenaltyInTenths(counts, p) == ScoreInTenths(counts, p) - 10 * BaseOf(counts, p)

\* The ordering selected when only the count sums are compared: the first of
\* the enumeration whose count sum is minimal
SelectedOnBaseAlone(counts, orderings) ==
    orderings[CHOOSE i \in 1..Len(orderings) :
        /\ \A j \in 1..Len(orderings) :
              BaseOf(counts, orderings[i]) <= BaseOf(counts, orderings[j])
        /\ \A j \in 1..(i - 1) :
              BaseOf(counts, orderings[j]) > BaseOf(counts, orderings[i])]

\* On counts sc, two orderings have equal count sums but different penalties,
\* and the ordering selected differs from the one selected on count sums alone
PenaltyDecides(sc, orderings) ==
    /\ \E i, j \in 1..Len(orderings) :
          /\ BaseOf(sc, orderings[i]) = BaseOf(sc, orderings[j])
          /\ PenaltyInTenths(sc, orderings[i]) # PenaltyInTenths(sc, orderings[j])
    /\ SelectBest(sc, orderings) # SelectedOnBaseAlone(sc, orderings)

\* Some day from week index k, day j on, generated from counts sc, has PenaltyDecides
RECURSIVE PenaltyDecidesFrom(_, _, _, _)
PenaltyDecidesFrom(ws, k, j, sc) ==
    IF k >= Len(ws) THEN FALSE
    ELSE LET day == ws[k + 1][j]
             r == DayResult(sc, k, day)
             orderings == permutations(WorkingWorkers(r.entry.off))
         IN  \/ PenaltyDecides(sc, orderings)
             \/ IF j < Len(ws[k + 1])
                THEN PenaltyDecidesFrom(ws, k, j + 1, r.counts)
                ELSE PenaltyDecidesFrom(ws, k + 1, 1, r.counts)

\* C9: there is a generation state (some month, some day) in which two of the
\* six orderings have equal base scores but different penalties, so that the
\* penalty changes which ordering is selected: whenever a call can be made, a
\* call for some month reaches such a day.
C9_PenaltyDiscriminates ==
    pc \in {"idle", "done"} =>
        \E y \in Years, m \in Months :
            PenaltyDecidesFrom(GroupWeeks(BuildDays(y, m)), 0, 1, ZeroCounts)

\* C9, what the generator does instead in every state it reaches: the six orderings
\* all carry the same penalty (the same three workers' spreads, whatever the
\* slots), and the committed ordering is the one selected on count sums alone
C9_PenaltyNeverDecides ==
    (Started /\ writes > 0) =>
        LET orderings == EnumerationOrder(Candidates)
        IN  /\ \A i, j \in 1..6 :
                  PenaltyInTenths(before, orderings[i]) = PenaltyInTenths(before, orderings[j])
            /\ bestPerm = SelectedOnBaseAlone(before, orderings)

\* C9: a committed day whose orderings tie on count sums while the working workers'
\* spreads are not all zero: the tiebreak had something to separate and did not
C9_Witness ==
    /\ Started /\ writes > 0
    /\ LET orderings == EnumerationOrder(Candidates)
       IN  /\ BaseOf(before, orderings[1]) = BaseOf(before, orderings[2])
           /\ PenaltyInTenths(before, orderings[1]) > 0
           /\ PenaltyInTenths(before, orderings[1]) = PenaltyInTenths(before, orderings[2])

\* C10: committing a day adds 1 to exactly the cells (bestPerm[s], s), s = 0,1,2,
\* of the counts the day's scoring read, in three different worker rows none of
\* which is the off worker's, and leaves every other cell as it was; after n
\* committed days every shift column sums to n and each worker's row sums to
\* the number of days that worker has worked.
C10_CommitIncrementsThreeCells ==
    /\ (Started /\ writes > 0) =>
          /\ Len(bestPerm) = 3
          /\ Cardinality({bestPerm[k] : k \in 1..3}) = 3
          /\ \A k \in 1..3 : bestPerm[k] # schedule[lastDay.date].off
          /\ \A w \in 0..3 : \A s \in 0..2 :
                shiftCounts[w][s] =
                    before[w][s] + (IF bestPerm[s + 1] = w THEN 1 ELSE 0)
          /\ \A s \in 0..2 : schedule[lastDay.date].shifts[bestPerm[s + 1]] = SHIFTS[s + 1]
    /\ Started =>
          /\ \A s \in 0..2 :
                shiftCounts[0][s] + shiftCounts[1][s] + shiftCounts[2][s]
                    + shiftCounts[3][s] = Cardinality(DOMAIN schedule)
          /\ \A w \in 0..3 :
                shiftCounts[w][0] + shiftCounts[w][1] + shiftCounts[w][2] = WorkDays(w)

\* After the tenth committed day: three cells one above the counts read, each
\* column summing to 10
C10_Witness ==
    /\ Started /\ writes = 10
    /\ shiftCounts[bestPerm[1]][0] = before[bestPerm[1]][0] + 1
    /\ shiftCounts[bestPerm[2]][1] = before[bestPerm[2]][1] + 1
    /\ shiftCounts[bestPerm[3]][2] = before[bestPerm[3]][2] + 1
    /\ shiftCounts[0][0] + shiftCounts[1][0] + shiftCounts[2][0] + shiftCounts[3][0] = 10

---------------------------------------------------------------------------
(* The export of a stored schedule                                          *)

\* exportToExcel went past its null check: it read schedule[d] to build rows
ExportBuiltRows == lastExport.outcome \in {"file", "TypeError"}

\* Every day of the displayed month has an entry in state.schedule
EveryDayDefined ==
    /\ stateSchedule # <<>>
    /\ \A d \in 1..DaysInMonth(stateYear, stateMonth) : d \in DOMAIN stateSchedule[1]

\* C11: whenever exportToExcel gets past its null check and builds rows,
\* state.schedule is the schedule that was generated for the displayed
\* (state.year, state.month), and schedule[d] is defined for every day d of the
\* month being exported.
C11_ExportsScheduleOfCurrentMonth ==
    ExportBuiltRows =>
        /\ generatedFor = <<stateYear, stateMonth>>
        /\ EveryDayDefined

\* An export that went past the null check has happened
C11_Witness ==
    /\ ExportBuiltRows
    /\ stateSchedule # <<>>
    /\ pc = "done"

---------------------------------------------------------------------------
(* Balance of a worker's own three counts                                   *)

\* max(ShiftCounts[w]) - min(ShiftCounts[w])
Spread(w) == MaxCount(shiftCounts[w]) - MinCount(shiftCounts[w])

\* C12: in every month and after every committed day, each worker's three
\* per-shift counts differ by at most 2: for every worker w,
\* max(shiftCounts[w]) - min(shiftCounts[w]) <= 2.
C12_PerWorkerSpreadAtMostTwo ==
    (Started /\ writes > 0) => \A w \in Workers : Spread(w) <= 2

\* A committed day after which some worker's counts differ by exactly 2
C12_Witness ==
    /\ pc = "loop"
    /\ writes > 0
    /\ \E w \in Workers : Spread(w) = 2 /\ before[w] # shiftCounts[w]

====
